---- MODULE Spec2Model ----
(***************************************************************************)
(* Transaction reliability layer of go-synapse: txutil.NonceManager        *)
(* (pkg/txutil/nonce.go), the retrier and the receipt waiters of txutil,   *)
(* and the proof-set operations of pdp.Manager (pdp/manager.go) that       *)
(* allocate a nonce, transmit a transaction, wait for its receipt and      *)
(* finalise the nonce.                                                     *)
(*                                                                         *)
(* Spec      : one NonceManager driven through its exported methods with   *)
(*             arbitrary arguments, in any order.                          *)
(* SpecOrch  : concurrent CreateProofSet / AddRoots / DeleteProofSet calls *)
(*             on one Manager, whose NonceManager is private to it.        *)
(* SpecConc  : goroutines calling GetNonce on one fresh NonceManager at    *)
(*             the same time, with nm.mu and the network call as steps.    *)
(* SpecRetry : one txutil.SendTransactionWithRetry call (pkg/txutil/       *)
(*             retry.go) with its backoff waits and the caller's context.  *)
(* SpecWait  : one txutil.WaitForReceiptWithConfig or WaitForConfirmation  *)
(*             call with its ticker, its context and the node's answers.   *)
(***************************************************************************)
EXTENDS Integers, Sequences, FiniteSets, TLC

\* ---------------------------------------------------------------- bounds
\* Largest nonce value GetNonce may hand out to a direct caller.
MaxNonce ==
  2

\* PendingNonceAt answers with a value in 0..MaxFetch.
MaxFetch ==
  1

\* Longest reclaim pool a direct caller may build.
MaxReclaim ==
  3

\* Number of concurrent Manager operations.
NumOps ==
  2

\* Number of goroutines that call GetNonce at the same time.
NumCallers ==
  4

\* Largest RetryConfig.MaxRetries a caller passes.
MaxRetriesBound ==
  2

\* Largest backoff duration a caller configures, in time units.
MaxDuration ==
  2

\* Most receipt polls one wait makes.
MaxPolls ==
  5

\* Largest ReceiptWaitConfig.MaxConsecutiveErrors a caller passes.
MaxErrorsConfig ==
  2

\* Largest confirmation depth a caller asks for.
MaxConfirmations ==
  2

\* Largest block number a receipt carries.
MaxBlock ==
  1

\* Largest chain head client.BlockNumber answers with.
MaxHead ==
  3

\* Number of GetNonce calls followed after a Reset.
MaxIssued ==
  3

\* Largest attempt number CalculateBackoff is called with.
MaxAttempt ==
  3

\* Largest maxBackoff CalculateBackoff is called with, in time units.
MaxCap ==
  6

\* Largest number read from the random source.
MaxRand ==
  3

\* Width in bits of the integers that hold a duration in CalculateBackoff
\* (64 in the program).
DurationBits ==
  5

\* ------------------------------------------------------- program constants
\* DefaultReceiptWaitConfig().MaxConsecutiveErrors
MaxConsecutiveErrors ==
  5

\* DefaultManagerConfig().GasBufferPercent
DefaultGasBufferPercent ==
  10

VARIABLES
  nonce,        \* nm.nonce: <<>> when nil, <<v>> when it points at v
  pendingTxs,   \* nm.pendingTxs: the keys of the map
  reclaimable,  \* nm.reclaimable: the slice, in append order
  retired,      \* history: nonces MarkConfirmed has been called for
  last,         \* history: the NonceManager call made by the latest step
  ops,          \* one record per Manager operation (its locals and position)
  broadcast,    \* nonces of transactions the node has accepted
  mu,           \* nm.mu: 0 when free, else the goroutine holding it
  callers,      \* goroutines calling GetNonce at the same time
  retrier,      \* one SendTransactionWithRetry call: its locals and position
  waiter,       \* one receipt wait: its locals and position
  call,         \* the latest call of a function that keeps no state
  epoch         \* a Reset made while an operation holds a nonce

nmVars ==
  <<nonce, pendingTxs, reclaimable, retired>>

\* The state of the components a NonceManager or Manager step leaves alone.
auxVars ==
  <<mu, callers, retrier, waiter, call, epoch>>

vars ==
  <<nonce, pendingTxs, reclaimable, retired, last, ops, broadcast,
    mu, callers, retrier, waiter, call, epoch>>

Nonces ==
  0..MaxNonce

Ops ==
  1..NumOps

\* The caller id of a direct (non-Manager) user of the NonceManager.
Direct ==
  0

Range(s) ==
  {s[i] : i \in DOMAIN s}

MinOf(S) ==
  CHOOSE x \in S : \A y \in S : x <= y

RECURSIVE Pow(_, _)
Pow(b, e) ==
  IF e = 0 THEN 1 ELSE b * Pow(b, e - 1)

\* Number of occurrences of x in the sequence s.
Count(s, x) ==
  Cardinality({i \in DOMAIN s : s[i] = x})

\* ---------------------------------------------------------- NonceManager
\* The three fields of the NonceManager, as a value.
Snapshot ==
  [nonce |-> nonce, pendingTxs |-> pendingTxs, reclaimable |-> reclaimable]

EmptySnapshot ==
  [nonce |-> <<>>, pendingTxs |-> {}, reclaimable |-> <<>>]

\* The latest step made no NonceManager call.
NoCall ==
  [op |-> "none", caller |-> Direct, arg |-> 0, ret |-> 0, err |-> FALSE,
   net |-> FALSE, pre |-> EmptySnapshot]

Call(op, caller, arg, ret, err) ==
  [op |-> op, caller |-> caller, arg |-> arg, ret |-> ret, err |-> err,
   net |-> FALSE, pre |-> Snapshot]

\* The record of a call that asked the node for the account's pending nonce.
NetCall(op, caller, arg, ret, err) ==
  [Call(op, caller, arg, ret, err) EXCEPT !.net = TRUE]

\* The answers of client.PendingNonceAt: a value, or an error.
FetchResults ==
  [ok : {TRUE}, val : 0..MaxFetch] \cup [ok : {FALSE}, val : {0}]

RECURSIVE InsertAsc(_, _)
InsertAsc(x, s) ==
  IF s = <<>> THEN <<x>>
  ELSE IF x <= Head(s) THEN <<x>> \o s
  ELSE <<Head(s)>> \o InsertAsc(x, Tail(s))

RECURSIVE SortAsc(_)
SortAsc(s) ==
  IF s = <<>> THEN <<>> ELSE InsertAsc(Head(s), SortAsc(Tail(s)))

\* A GetNonce that skips the sort and takes the slice's first element.
SortSliceSkipped(s) ==
  s

\* sort.Slice(nm.reclaimable, less) in GetNonce.
SortSlice(s) ==
  SortAsc(s)

\* A GetNonce that starts the counter at zero when the fetch fails.
GetNonceZeroOnError(caller, fetch) ==
  IF Len(reclaimable) > 0
  THEN LET sorted == SortSlice(reclaimable)
           n == sorted[1]
       IN /\ reclaimable' = Tail(sorted)
          /\ pendingTxs' = pendingTxs \cup {n}
          /\ UNCHANGED <<nonce, retired>>
          /\ last' = Call("GetNonce", caller, 0, n, FALSE)
  ELSE IF nonce = <<>> /\ ~fetch.ok
  THEN /\ nonce' = <<0>>
       /\ UNCHANGED <<pendingTxs, reclaimable, retired>>
       /\ last' = NetCall("GetNonce", caller, 0, 0, TRUE)
  ELSE LET currentNonce == IF nonce = <<>> THEN fetch.val ELSE nonce[1]
       IN /\ pendingTxs' = pendingTxs \cup {currentNonce}
          /\ nonce' = <<currentNonce + 1>>
          /\ UNCHANGED <<reclaimable, retired>>
          /\ last' = IF nonce = <<>>
                     THEN NetCall("GetNonce", caller, 0, currentNonce, FALSE)
                     ELSE Call("GetNonce", caller, 0, currentNonce, FALSE)

\* NonceManager.GetNonce; fetch is what PendingNonceAt would answer.
GetNonce(caller, fetch) ==
  IF Len(reclaimable) > 0
  THEN LET sorted == SortSlice(reclaimable)
           n == sorted[1]
       IN /\ reclaimable' = Tail(sorted)
          /\ pendingTxs' = pendingTxs \cup {n}
          /\ UNCHANGED <<nonce, retired>>
          /\ last' = Call("GetNonce", caller, 0, n, FALSE)
  ELSE IF nonce = <<>> /\ ~fetch.ok
  THEN /\ UNCHANGED nmVars
       /\ last' = NetCall("GetNonce", caller, 0, 0, TRUE)
  ELSE LET currentNonce == IF nonce = <<>> THEN fetch.val ELSE nonce[1]
       IN /\ pendingTxs' = pendingTxs \cup {currentNonce}
          /\ nonce' = <<currentNonce + 1>>
          /\ UNCHANGED <<reclaimable, retired>>
          /\ last' = IF nonce = <<>>
                     THEN NetCall("GetNonce", caller, 0, currentNonce, FALSE)
                     ELSE Call("GetNonce", caller, 0, currentNonce, FALSE)

\* A MarkConfirmed that also drops the nonce from the reclaim pool.
MarkConfirmedPurges(caller, n) ==
  /\ pendingTxs' = pendingTxs \ {n}
  /\ reclaimable' = SelectSeq(reclaimable, LAMBDA x : x # n)
  /\ retired' = retired \cup {n}
  /\ UNCHANGED nonce
  /\ last' = Call("MarkConfirmed", caller, n, 0, FALSE)

\* A MarkConfirmed that leaves the map untouched.
MarkConfirmedKeeps(caller, n) ==
  /\ retired' = retired \cup {n}
  /\ UNCHANGED <<nonce, pendingTxs, reclaimable>>
  /\ last' = Call("MarkConfirmed", caller, n, 0, FALSE)

\* NonceManager.MarkConfirmed
MarkConfirmed(caller, n) ==
  /\ pendingTxs' = pendingTxs \ {n}
  /\ retired' = retired \cup {n}
  /\ UNCHANGED <<nonce, reclaimable>>
  /\ last' = Call("MarkConfirmed", caller, n, 0, FALSE)

\* A MarkFailed that takes the counter back when n is the latest nonce.
MarkFailedRollsBack(caller, n) ==
  /\ pendingTxs' = pendingTxs \ {n}
  /\ IF nonce = <<n + 1>>
     THEN nonce' = <<n>> /\ UNCHANGED reclaimable
     ELSE reclaimable' = Append(reclaimable, n) /\ UNCHANGED nonce
  /\ UNCHANGED retired
  /\ last' = Call("MarkFailed", caller, n, 0, FALSE)

\* NonceManager.MarkFailed
MarkFailed(caller, n) ==
  /\ pendingTxs' = pendingTxs \ {n}
  /\ reclaimable' = Append(reclaimable, n)
  /\ UNCHANGED <<nonce, retired>>
  /\ last' = Call("MarkFailed", caller, n, 0, FALSE)

\* A Reset that forgets to drop the reclaim pool.
ResetKeepsPool(caller, fetch) ==
  IF ~fetch.ok
  THEN /\ UNCHANGED nmVars
       /\ last' = NetCall("Reset", caller, 0, 0, TRUE)
  ELSE /\ nonce' = <<fetch.val>>
       /\ pendingTxs' = {}
       /\ UNCHANGED <<reclaimable, retired>>
       /\ last' = NetCall("Reset", caller, fetch.val, 0, FALSE)

\* NonceManager.Reset; fetch is what PendingNonceAt answers. The history
\* record keeps the fetched value as the call's argument.
Reset(caller, fetch) ==
  IF ~fetch.ok
  THEN /\ UNCHANGED nmVars
       /\ last' = NetCall("Reset", caller, 0, 0, TRUE)
  ELSE /\ nonce' = <<fetch.val>>
       /\ pendingTxs' = {}
       /\ reclaimable' = <<>>
       /\ UNCHANGED retired
       /\ last' = NetCall("Reset", caller, fetch.val, 0, FALSE)

\* NonceManager.GetPendingCount
GetPendingCount(caller) ==
  /\ UNCHANGED nmVars
  /\ last' = Call("GetPendingCount", caller, 0, Cardinality(pendingTxs), FALSE)

\* --------------------------------------------- direct use of the manager
\* A GetNonce call is made while the value it would hand out is in range.
CallGetNonce ==
  /\ IF Len(reclaimable) > 0 \/ nonce = <<>> THEN TRUE ELSE nonce[1] <= MaxNonce
  /\ \E fetch \in FetchResults : GetNonce(Direct, fetch)
  /\ UNCHANGED <<ops, broadcast, auxVars>>

CallMarkConfirmed ==
  /\ \E n \in Nonces : MarkConfirmed(Direct, n)
  /\ UNCHANGED <<ops, broadcast, auxVars>>

CallMarkFailed ==
  /\ Len(reclaimable) < MaxReclaim
  /\ \E n \in Nonces : MarkFailed(Direct, n)
  /\ UNCHANGED <<ops, broadcast, auxVars>>

CallReset ==
  /\ \E fetch \in FetchResults : Reset(Direct, fetch)
  /\ UNCHANGED <<ops, broadcast, auxVars>>

CallGetPendingCount ==
  /\ GetPendingCount(Direct)
  /\ UNCHANGED <<ops, broadcast, auxVars>>

\* ----------------------------------------------- concurrent GetNonce calls
Goroutines ==
  1..NumCallers

\* A goroutine that has not called GetNonce yet.
IdleCaller ==
  [pc |-> "idle", ret |-> 0]

\* --------------------------------------------------------------- retrier
\* An error is the sequence of the characters of its message; nil is <<>>.
NilError ==
  <<>>

UpperCase ==
  <<"A", "B", "C", "D", "E", "F", "G", "H", "I", "J", "K", "L", "M", "N",
    "O", "P", "Q", "R", "S", "T", "U", "V", "W", "X", "Y", "Z">>

LowerCase ==
  <<"a", "b", "c", "d", "e", "f", "g", "h", "i", "j", "k", "l", "m", "n",
    "o", "p", "q", "r", "s", "t", "u", "v", "w", "x", "y", "z">>

\* strings.ToLower, one character
LowerOf(c) ==
  IF \E i \in DOMAIN UpperCase : UpperCase[i] = c
  THEN LowerCase[CHOOSE i \in DOMAIN UpperCase : UpperCase[i] = c]
  ELSE c

\* A classifier that compares the message as it is written.
ToLowerSkipped(str) ==
  str

\* strings.ToLower
ToLower(str) ==
  [i \in DOMAIN str |-> LowerOf(str[i])]

\* strings.Contains
Contains(str, substr) ==
  \E i \in 0..(Len(str) - Len(substr)) :
    SubSeq(str, i + 1, i + Len(substr)) = substr

\* The list retryableErrors of IsRetryableError.
retryableErrors ==
  {
    <<"n", "o", "n", "c", "e", " ", "t", "o", "o", " ", "l", "o", "w">>,
    <<"r", "e", "p", "l", "a", "c", "e", "m", "e", "n", "t", " ", "t", "r",
      "a", "n", "s", "a", "c", "t", "i", "o", "n", " ", "u", "n", "d", "e",
      "r", "p", "r", "i", "c", "e", "d">>,
    <<"a", "l", "r", "e", "a", "d", "y", " ", "k", "n", "o", "w", "n">>,
    <<"t", "i", "m", "e", "o", "u", "t">>,
    <<"c", "o", "n", "n", "e", "c", "t", "i", "o", "n", " ", "r", "e", "f",
      "u", "s", "e", "d">>,
    <<"c", "o", "n", "n", "e", "c", "t", "i", "o", "n", " ", "r", "e", "s",
      "e", "t">>,
    <<"b", "r", "o", "k", "e", "n", " ", "p", "i", "p", "e">>,
    <<"i", "/", "o", " ", "t", "i", "m", "e", "o", "u", "t">>
  }

\* A classifier that takes every error for a transient one.
IsRetryableErrorAlways(err) ==
  err # NilError

\* txutil.IsRetryableError
IsRetryableError(err) ==
  /\ err # NilError
  /\ \E retryable \in retryableErrors : Contains(ToLower(err), retryable)

ErrNonceTooLow ==
  <<"n", "o", "n", "c", "e", " ", "t", "o", "o", " ", "l", "o", "w">>

ErrAlreadyKnown ==
  <<"A", "l", "r", "e", "a", "d", "y", " ", "K", "n", "o", "w", "n">>

ErrInsufficientFunds ==
  <<"i", "n", "s", "u", "f", "f", "i", "c", "i", "e", "n", "t", " ", "f",
    "u", "n", "d", "s">>

\* context.Canceled
ErrContextCanceled ==
  <<"c", "o", "n", "t", "e", "x", "t", " ", "c", "a", "n", "c", "e", "l",
    "e", "d">>

\* The errors client.SendTransaction answers with in this model.
SendErrors ==
  {ErrNonceTooLow, ErrAlreadyKnown, ErrInsufficientFunds, ErrContextCanceled}

\* BackoffMultiple as a fraction <<numerator, denominator>>.
Multiples ==
  {<<2, 1>>, <<3, 2>>}

\* The RetryConfig values a caller passes.
RetryConfigs ==
  [MaxRetries : 0..MaxRetriesBound, InitialBackoff : 0..MaxDuration,
   MaxBackoff : 0..MaxDuration, BackoffMultiple : Multiples]

\* What the call returned: the hash, or an error of one of three kinds with
\* the error it wraps.
NoReturn ==
  [kind |-> "none", wraps |-> NilError]

\* No SendTransactionWithRetry call has been made. sends and waits are the
\* history of the call: the answers of SendTransaction in order and the
\* backoff durations waited in full; cancelledParked and sendsAtCancel
\* record a cancellation that arrived while the call was blocked in select,
\* sentCancelled a SendTransaction call made with ctx already cancelled.
IdleRetrier ==
  [pc |-> "idle",
   config |-> [MaxRetries |-> 0, InitialBackoff |-> 0, MaxBackoff |-> 0,
               BackoffMultiple |-> <<2, 1>>],
   attempt |-> 0, backoff |-> 0, lastErr |-> NilError, cancelled |-> FALSE,
   sends |-> <<>>, waits |-> <<>>, cancelledParked |-> FALSE,
   sendsAtCancel |-> 0, sentCancelled |-> FALSE, ret |-> NoReturn]

\* ---------------------------------------------------------------- waiter
WaitFunctions ==
  {"WaitForReceiptWithConfig", "WaitForConfirmation"}

\* What a wait returned: whether the receipt is non-nil, the error (nil, or
\* the sentinel errors.Is finds in it), the error text appended with %v, and
\* the poll count written into the message.
NoWaitReturn ==
  [receipt |-> FALSE, err |-> "nil", detail |-> "none", polls |-> 0]

\* No wait has been called. hist, requests, headFetches, cancelParked and
\* requestsAtCancel are the history of the call: the answers of the RPC
\* calls in order, the numbers of TransactionReceipt and BlockNumber calls
\* made, and a caller's cancellation that arrived while the call was
\* blocked in the select.
IdleWaiter ==
  [pc |-> "idle", fn |-> "none", config |-> 0, confirmations |-> 0,
   maxErrors |-> 0, consecutiveErrors |-> 0, pollCount |-> 0,
   lastErr |-> "none", receiptBlock |-> 0, currentBlock |-> 0,
   ctx |-> "live", tickReady |-> FALSE, hist |-> <<>>, requests |-> 0,
   headFetches |-> 0, cancelParked |-> FALSE, requestsAtCancel |-> 0,
   ret |-> NoWaitReturn]

\* ------------------------------------------------- stateless functions
ErrUnderpriced ==
  <<"r", "e", "p", "l", "a", "c", "e", "m", "e", "n", "t", " ", "t", "r",
    "a", "n", "s", "a", "c", "t", "i", "o", "n", " ", "u", "n", "d", "e",
    "r", "p", "r", "i", "c", "e", "d">>

ErrTimeoutOccurred ==
  <<"t", "i", "m", "e", "o", "u", "t", " ", "o", "c", "c", "u", "r", "r",
    "e", "d">>

ErrConnectionRefused ==
  <<"c", "o", "n", "n", "e", "c", "t", "i", "o", "n", " ", "r", "e", "f",
    "u", "s", "e", "d">>

ErrConnectionReset ==
  <<"r", "e", "a", "d", ":", " ", "C", "o", "n", "n", "e", "c", "t", "i",
    "o", "n", " ", "r", "e", "s", "e", "t", " ", "b", "y", " ", "p", "e",
    "e", "r">>

ErrBrokenPipe ==
  <<"w", "r", "i", "t", "e", ":", " ", "b", "r", "o", "k", "e", "n", " ",
    "p", "i", "p", "e">>

ErrIOTimeout ==
  <<"i", "/", "o", " ", "t", "i", "m", "e", "o", "u", "t">>

ErrNonceTooHigh ==
  <<"n", "o", "n", "c", "e", " ", "t", "o", "o", " ", "h", "i", "g", "h">>

ErrInvalidNonce ==
  <<"i", "n", "v", "a", "l", "i", "d", " ", "n", "o", "n", "c", "e">>

ErrGasTooLow ==
  <<"i", "n", "t", "r", "i", "n", "s", "i", "c", " ", "g", "a", "s", " ",
    "t", "o", "o", " ", "l", "o", "w">>

ErrMaxFee ==
  <<"m", "a", "x", " ", "f", "e", "e", " ", "p", "e", "r", " ", "g", "a",
    "s", " ", "l", "e", "s", "s", " ", "t", "h", "a", "n", " ", "b", "l",
    "o", "c", "k", " ", "b", "a", "s", "e", " ", "f", "e", "e">>

\* The errors the classifiers are called with.
ErrorSamples ==
  SendErrors \cup
  {ErrUnderpriced, ErrTimeoutOccurred, ErrConnectionRefused,
   ErrConnectionReset, ErrBrokenPipe, ErrIOTimeout, ErrNonceTooHigh,
   ErrInvalidNonce, ErrGasTooLow, ErrMaxFee}

\* txutil.IsNonceError
IsNonceError(err) ==
  /\ err # NilError
  /\ \/ Contains(ToLower(err), <<"n", "o", "n", "c", "e", " ", "t", "o", "o", " ", "l", "o", "w">>)
     \/ Contains(ToLower(err), <<"n", "o", "n", "c", "e", " ", "t", "o", "o", " ", "h", "i", "g",
         "h">>)
     \/ Contains(ToLower(err), <<"i", "n", "v", "a", "l", "i", "d", " ", "n", "o", "n", "c", "e">>)

\* txutil.IsGasError
IsGasError(err) ==
  /\ err # NilError
  /\ \/ Contains(ToLower(err), <<"g", "a", "s">>)
     \/ Contains(ToLower(err), <<"f", "e", "e">>)

\* math.MaxInt64 and math.MinInt64 at the width of the model's durations.
DurationMax ==
  Pow(2, DurationBits - 1) - 1

DurationMin ==
  0 - Pow(2, DurationBits - 1)

\* time.Duration(f) for the float f = numer / denom >= 0: the value
\* truncated when it fits; a float too large for the integer type converts
\* to a value that depends on the build (the smallest integer on amd64,
\* the largest on arm64).
FloatToDuration(numer, denom) ==
  IF numer \div denom <= DurationMax
  THEN {numer \div denom}
  ELSE {DurationMin, DurationMax}

\* Integer division of Go, which truncates toward zero.
Quot(a, b) ==
  IF a >= 0 THEN a \div b ELSE 0 - ((0 - a) \div b)

\* What crypto/rand.Read gives: eight bytes read as a number, or an error.
RandomDraws ==
  [ok : {TRUE}, val : 0..MaxRand] \cup [ok : {FALSE}, val : {0}]

\* txutil.secureRandomInt64n
secureRandomInt64n(n, draw) ==
  IF n <= 0 THEN 0
  ELSE IF ~draw.ok THEN 0
  ELSE draw.val % n

\* if backoff > maxBackoff { backoff = maxBackoff } (retry.go 117-119)
CapBackoff(backoff, maxBackoff) ==
  IF backoff > maxBackoff THEN maxBackoff ELSE backoff

\* txutil.CalculateBackoff from the converted product backoff on
\* (retry.go 117-125).
CalculateBackoff(backoff, maxBackoff, draw) ==
  LET halfBackoff == Quot(CapBackoff(backoff, maxBackoff), 2)
      jitter == secureRandomInt64n(halfBackoff + 1, draw)
  IN halfBackoff + jitter

\* ManagerConfig.GasBufferPercent and bufferPercent values a caller passes.
GasBufferPercents ==
  {0 - 1, 0, DefaultGasBufferPercent, 100, 101}

\* The answers of client.EstimateGas: a gas limit, or an error.
GasEstimates ==
  [ok : {TRUE}, gas : {0, 150, 21000}] \cup [ok : {FALSE}, gas : {0}]

\* if bufferPercent < 0 || bufferPercent > 100
PercentOutOfRange(percent) ==
  percent < 0 \/ percent > 100

\* No stateless function has been called. netCalls lists the requests the
\* call sent to the node, in order.
NoFunctionCall ==
  [fn |-> "none", args |-> <<>>, netCalls |-> <<>>, result |-> <<>>]

\* ------------------------------------------------ Reset during operations
\* held is the nonce of the operation in flight (<<>> before it has one),
\* released whether its deferred MarkFailed has run, issued the values
\* GetNonce has returned since the Reset, in order.
NoEpoch ==
  [pc |-> "fresh", held |-> <<>>, released |-> FALSE, issued |-> <<>>]

\* ------------------------------------------------------------------ Init
IdleOp ==
  [pc |-> "idle", kind |-> "none", nonce |-> 0, txSent |-> FALSE,
   consecutiveErrors |-> 0, wait |-> "none", outcome |-> "none",
   hasResult |-> FALSE, failedCalls |-> 0, confirmedCalls |-> 0,
   sendResult |-> "none"]

\* NewNonceManager: nil counter, empty map, nil slice; no operation started.
Init ==
  /\ nonce = <<>>
  /\ pendingTxs = {}
  /\ reclaimable = <<>>
  /\ retired = {}
  /\ last = NoCall
  /\ ops = [o \in Ops |-> IdleOp]
  /\ broadcast = {}
  /\ mu = 0
  /\ callers = [g \in Goroutines |-> IdleCaller]
  /\ retrier = IdleRetrier
  /\ waiter = IdleWaiter
  /\ call = NoFunctionCall
  /\ epoch = NoEpoch

Next ==
  \/ CallGetNonce
  \/ CallMarkConfirmed
  \/ CallMarkFailed
  \/ CallReset
  \/ CallGetPendingCount

Spec ==
  Init /\ [][Next]_vars

\* ------------------------------------------------------------ pdp.Manager
Kinds ==
  {"CreateProofSet", "AddRoots", "DeleteProofSet"}

\* What the transmitting contract call can come back with: nil after the
\* node took the transaction, an error from a node that did not take it, or
\* an error although the node took it (reply lost, deadline hit).
SendResults ==
  {"ok", "rejected", "lost"}

\* What one turn of the receipt loop can see: the context done, or the
\* answer of client.TransactionReceipt.
PollEvents ==
  {"ctxDone", "notFound", "rpcError", "success", "failed"}

\* A loop whose counter survives a 'not found' answer.
PollReceiptNoReset(c, event, maxErrors) ==
  CASE event = "ctxDone"  -> [status |-> "timeout", consecutiveErrors |-> c]
    [] event = "notFound" -> [status |-> "polling", consecutiveErrors |-> c]
    [] event = "rpcError" ->
         IF c + 1 >= maxErrors
         THEN [status |-> "rpcFailure", consecutiveErrors |-> c + 1]
         ELSE [status |-> "polling", consecutiveErrors |-> c + 1]
    [] event = "failed"   -> [status |-> "failedOnChain", consecutiveErrors |-> c]
    [] event = "success"  -> [status |-> "success", consecutiveErrors |-> c]

\* A loop that does not look at the receipt's status.
PollReceiptAnyStatus(c, event, maxErrors) ==
  CASE event = "ctxDone"  -> [status |-> "timeout", consecutiveErrors |-> c]
    [] event = "notFound" -> [status |-> "polling", consecutiveErrors |-> 0]
    [] event = "rpcError" ->
         IF c + 1 >= maxErrors
         THEN [status |-> "rpcFailure", consecutiveErrors |-> c + 1]
         ELSE [status |-> "polling", consecutiveErrors |-> c + 1]
    [] event = "failed"   -> [status |-> "success", consecutiveErrors |-> c]
    [] event = "success"  -> [status |-> "success", consecutiveErrors |-> c]

\* One turn of the select loop of WaitForReceiptWithConfig, from the
\* consecutive-error count c: the loop's new count and whether it returned.
PollReceipt(c, event, maxErrors) ==
  CASE event = "ctxDone"  -> [status |-> "timeout", consecutiveErrors |-> c]
    [] event = "notFound" -> [status |-> "polling", consecutiveErrors |-> 0]
    [] event = "rpcError" ->
         IF c + 1 >= maxErrors
         THEN [status |-> "rpcFailure", consecutiveErrors |-> c + 1]
         ELSE [status |-> "polling", consecutiveErrors |-> c + 1]
    [] event = "failed"   -> [status |-> "failedOnChain", consecutiveErrors |-> c]
    [] event = "success"  -> [status |-> "success", consecutiveErrors |-> c]

\* A deferred closure that releases the nonce on every return.
ShouldMarkFailedAlways(txSent) ==
  TRUE

\* A deferred closure that never releases the nonce.
ShouldMarkFailedNever(txSent) ==
  FALSE

\* The condition of the deferred closure: if !txSent { MarkFailed(nonce) }.
ShouldMarkFailed(txSent) ==
  ~txSent

\* The operation returns with record rec; its deferred closure runs. The
\* receipt loop's counter is a local of the returned call and is dropped.
Return(o, rec) ==
  IF ShouldMarkFailed(ops[o].txSent)
  THEN /\ MarkFailed(o, ops[o].nonce)
       /\ ops' = [ops EXCEPT ![o] =
                    [rec EXCEPT !.pc = "done", !.consecutiveErrors = 0,
                                !.failedCalls = @ + 1]]
  ELSE /\ UNCHANGED nmVars
       /\ last' = NoCall
       /\ ops' = [ops EXCEPT ![o] =
                    [rec EXCEPT !.pc = "done", !.consecutiveErrors = 0]]

\* AddRoots returns before asking for a nonce: no roots, or GetProofSet failed.
AddRootsRejected ==
  \E o \in Ops :
    /\ ops[o].pc = "idle"
    /\ ops' = [ops EXCEPT ![o] =
                 [IdleOp EXCEPT !.pc = "done", !.kind = "AddRoots",
                                !.outcome = "errPrecheck"]]
    /\ last' = NoCall
    /\ UNCHANGED <<nmVars, broadcast, auxVars>>

\* An operation starts: nonce, err := m.nonceManager.GetNonce(ctx)
\* (manager.go 179, 304, 396); on an error it returns before the deferred
\* closure is registered.
Begin ==
  \E o \in Ops, kind \in Kinds, fetch \in FetchResults :
    /\ ops[o].pc = "idle"
    /\ GetNonce(o, fetch)
    /\ ops' = [ops EXCEPT ![o] =
                 IF last'.err
                 THEN [IdleOp EXCEPT !.pc = "done", !.kind = kind,
                                     !.outcome = "errNonce"]
                 ELSE [IdleOp EXCEPT !.pc = "transactor", !.kind = kind,
                                     !.nonce = last'.ret]]
    /\ UNCHANGED <<broadcast, auxVars>>

\* auth, err := m.newTransactor(ctx, nonce, value) (manager.go 193, 318, 410).
\* DeleteProofSet has no dry run and goes straight to the transmitting call.
NewTransactor ==
  \E o \in Ops, ok \in BOOLEAN :
    /\ ops[o].pc = "transactor"
    /\ IF ok
       THEN /\ ops' = [ops EXCEPT ![o].pc =
                         IF ops[o].kind = "DeleteProofSet"
                         THEN "send" ELSE "estimate"]
            /\ last' = NoCall
            /\ UNCHANGED nmVars
       ELSE Return(o, [ops[o] EXCEPT !.outcome = "errSigner"])
    /\ UNCHANGED <<broadcast, auxVars>>

\* The dry run with auth.NoSend = true (CreateProofSet 199-207, AddRoots
\* 324-332).
EstimateGas ==
  \E o \in Ops, ok \in BOOLEAN :
    /\ ops[o].pc = "estimate"
    /\ IF ok
       THEN /\ ops' = [ops EXCEPT ![o].pc = "send"]
            /\ last' = NoCall
            /\ UNCHANGED nmVars
       ELSE Return(o, [ops[o] EXCEPT !.outcome = "errGas"])
    /\ UNCHANGED <<broadcast, auxVars>>

\* The transmitting contract call (manager.go 209-215, 334-340, 415-421);
\* txSent = true only after it returned nil.
Send ==
  \E o \in Ops, res \in SendResults :
    /\ ops[o].pc = "send"
    /\ broadcast' = IF res = "rejected" THEN broadcast
                    ELSE broadcast \cup {ops[o].nonce}
    /\ IF res = "ok"
       THEN /\ ops' = [ops EXCEPT ![o].pc = "wait", ![o].txSent = TRUE,
                                  ![o].sendResult = res]
            /\ last' = NoCall
            /\ UNCHANGED nmVars
       ELSE Return(o, [ops[o] EXCEPT !.outcome = "errSend",
                                     !.sendResult = res])
    /\ UNCHANGED auxVars

\* One turn of txutil.WaitForReceipt, and what the operation does with its
\* result (manager.go 217-223, 342-348, 423-429): on an error, the one that
\* comes with a failed receipt included, it returns; on a nil error it calls
\* MarkConfirmed.
Poll ==
  \E o \in Ops, event \in PollEvents :
    /\ ops[o].pc = "wait"
    /\ LET w == PollReceipt(ops[o].consecutiveErrors, event,
                            MaxConsecutiveErrors)
           rec == [ops[o] EXCEPT !.consecutiveErrors = w.consecutiveErrors]
       IN CASE w.status = "polling" ->
                 /\ ops' = [ops EXCEPT ![o] = rec]
                 /\ last' = NoCall
                 /\ UNCHANGED nmVars
            [] w.status = "success" ->
                 /\ MarkConfirmed(o, ops[o].nonce)
                 /\ ops' = [ops EXCEPT ![o] =
                              [rec EXCEPT !.pc = "finish", !.wait = "success",
                                          !.consecutiveErrors = 0,
                                          !.confirmedCalls = @ + 1]]
            [] OTHER ->
                 Return(o, [rec EXCEPT !.wait = w.status,
                                       !.outcome = "errWait"])
    /\ UNCHANGED <<broadcast, auxVars>>

\* After MarkConfirmed: the result is read from the receipt's logs
\* (CreateProofSet, AddRoots) and the operation returns.
Finish ==
  \E o \in Ops, extracted \in BOOLEAN :
    /\ ops[o].pc = "finish"
    /\ IF extracted \/ ops[o].kind = "DeleteProofSet"
       THEN Return(o, [ops[o] EXCEPT !.outcome = "ok",
                         !.hasResult = (ops[o].kind # "DeleteProofSet")])
       ELSE Return(o, [ops[o] EXCEPT !.outcome = "errExtract"])
    /\ UNCHANGED <<broadcast, auxVars>>

NextOrch ==
  \/ AddRootsRejected
  \/ Begin
  \/ NewTransactor
  \/ EstimateGas
  \/ Send
  \/ Poll
  \/ Finish

SpecOrch ==
  Init /\ [][NextOrch]_vars

\* ----------------------------------------------- concurrent GetNonce calls
\* A lock that lets every goroutine in.
MutexAlwaysFree(m) ==
  TRUE

\* nm.mu.Lock() returns only while no goroutine holds the mutex.
MutexFree(m) ==
  m = 0

\* GetNonce up to its network call (nonce.go 35-51): the goroutine takes the
\* mutex; with a reclaimable nonce or an initialised counter it runs to its
\* return and the deferred Unlock, otherwise it starts PendingNonceAt with
\* the mutex held.
GetNonceEnter ==
  \E g \in Goroutines :
    /\ callers[g].pc = "idle"
    /\ MutexFree(mu)
    /\ IF Len(reclaimable) > 0 \/ nonce # <<>>
       THEN /\ GetNonce(g, [ok |-> FALSE, val |-> 0])
            /\ callers' = [callers EXCEPT ![g] =
                             [pc |-> "returned", ret |-> last'.ret]]
            /\ mu' = 0
       ELSE /\ callers' = [callers EXCEPT ![g].pc = "fetching"]
            /\ mu' = g
            /\ last' = NoCall
            /\ UNCHANGED nmVars
    /\ UNCHANGED <<ops, broadcast, retrier, waiter, call, epoch>>

\* GetNonce from the answer of PendingNonceAt to its return (nonce.go 51-62):
\* on an error it returns it; otherwise nm.nonce points at the fetched value,
\* which is handed out, recorded as pending and incremented. The deferred
\* Unlock runs on both paths.
GetNonceFetched ==
  \E g \in Goroutines, fetch \in FetchResults :
    /\ callers[g].pc = "fetching"
    /\ IF ~fetch.ok
       THEN /\ callers' = [callers EXCEPT ![g].pc = "failed"]
            /\ last' = NetCall("GetNonce", g, 0, 0, TRUE)
            /\ UNCHANGED nmVars
       ELSE /\ pendingTxs' = pendingTxs \cup {fetch.val}
            /\ nonce' = <<fetch.val + 1>>
            /\ callers' = [callers EXCEPT ![g] =
                             [pc |-> "returned", ret |-> fetch.val]]
            /\ last' = NetCall("GetNonce", g, 0, fetch.val, FALSE)
            /\ UNCHANGED <<reclaimable, retired>>
    /\ mu' = 0
    /\ UNCHANGED <<ops, broadcast, retrier, waiter, call, epoch>>

NextConc ==
  \/ GetNonceEnter
  \/ GetNonceFetched

SpecConc ==
  Init /\ [][NextConc]_vars

\* ------------------------------------------- SendTransactionWithRetry
\* backoff = time.Duration(float64(backoff) * config.BackoffMultiple),
\* capped at config.MaxBackoff (retry.go 76-79).
NextBackoff(backoff, config) ==
  LET grown == (backoff * config.BackoffMultiple[1])
                 \div config.BackoffMultiple[2]
  IN IF grown > config.MaxBackoff THEN config.MaxBackoff ELSE grown

\* The call returns.
Returned(rec, kind, err) ==
  [rec EXCEPT !.pc = "done", !.ret = [kind |-> kind, wraps |-> err]]

\* A wait that does not listen to the context.
OnCtxDoneIgnored(rec) ==
  rec

\* case <-ctx.Done(): return common.Hash{}, ctx.Err()
OnCtxDone(rec) ==
  Returned(rec, "ctxErr", ErrContextCanceled)

\* case <-time.After(backoff): the wait is over, the next backoff is
\* computed and the loop body goes on to SendTransaction.
OnBackoffElapsed(rec) ==
  [rec EXCEPT !.pc = "send", !.waits = Append(@, rec.backoff),
              !.backoff = NextBackoff(rec.backoff, rec.config)]

\* A loop that runs one turn too many.
LoopContinuesOneMore(attempt, config) ==
  attempt <= config.MaxRetries + 1

\* The loop condition attempt <= config.MaxRetries.
LoopContinues(attempt, config) ==
  attempt <= config.MaxRetries

\* The head of the for loop: one more turn, which starts with the select
\* unless it is the first, or the return after the loop.
LoopTop(rec) ==
  IF LoopContinues(rec.attempt, rec.config)
  THEN [rec EXCEPT !.pc = IF rec.attempt > 0 THEN "select" ELSE "send"]
  ELSE Returned(rec, "maxRetries", rec.lastErr)

\* SendTransactionWithRetry is called (retry.go 65-69), with a context
\* that may be cancelled already.
RetryCall ==
  \E config \in RetryConfigs, cancelled \in BOOLEAN :
    /\ retrier.pc = "idle"
    /\ retrier' = LoopTop([IdleRetrier EXCEPT
                             !.config = config,
                             !.cancelled = cancelled,
                             !.backoff = config.InitialBackoff])
    /\ last' = NoCall
    /\ UNCHANGED <<nmVars, ops, broadcast, mu, callers, waiter, call, epoch>>

\* The caller cancels ctx. A call blocked in the select is woken by the
\* Done channel; anywhere else the cancellation is seen later.
RetryCtxCancelled ==
  /\ retrier.pc \in {"send", "select", "parked"}
  /\ ~retrier.cancelled
  /\ retrier' =
       IF retrier.pc = "parked"
       THEN OnCtxDone([retrier EXCEPT !.cancelled = TRUE,
                                      !.cancelledParked = TRUE,
                                      !.sendsAtCancel = Len(retrier.sends)])
       ELSE [retrier EXCEPT !.cancelled = TRUE]
  /\ last' = NoCall
  /\ UNCHANGED <<nmVars, ops, broadcast, mu, callers, waiter, call, epoch>>

\* The call reaches the select (retry.go 70-74): it takes a case that is
\* ready, either one when both are, and blocks when none is.
RetrySelect ==
  \E case \in {"done", "timer", "park"} :
    /\ retrier.pc = "select"
    /\ case = "done" => retrier.cancelled
    /\ case = "timer" => retrier.backoff <= 0
    /\ case = "park" => (~retrier.cancelled /\ retrier.backoff > 0)
    /\ retrier' = CASE case = "done" -> OnCtxDone(retrier)
                     [] case = "timer" -> OnBackoffElapsed(retrier)
                     [] case = "park" -> [retrier EXCEPT !.pc = "parked"]
    /\ last' = NoCall
    /\ UNCHANGED <<nmVars, ops, broadcast, mu, callers, waiter, call, epoch>>

\* The timer of time.After(backoff) fires while the call is blocked.
BackoffElapsed ==
  /\ retrier.pc = "parked"
  /\ retrier' = OnBackoffElapsed(retrier)
  /\ last' = NoCall
  /\ UNCHANGED <<nmVars, ops, broadcast, mu, callers, waiter, call, epoch>>

\* One attempt (retry.go 82-91): client.SendTransaction(ctx, tx), which
\* fails with the context's error when ctx is already cancelled.
RetrySend ==
  \E res \in SendErrors \cup {NilError} :
    /\ retrier.pc = "send"
    /\ retrier.cancelled => res = ErrContextCanceled
    /\ LET rec == [retrier EXCEPT
                     !.sends = Append(@, res),
                     !.sentCancelled = (@ \/ retrier.cancelled)]
       IN retrier' =
            IF res = NilError THEN Returned(rec, "hash", NilError)
            ELSE IF ~IsRetryableError(res)
            THEN Returned([rec EXCEPT !.lastErr = res], "nonRetryable", res)
            ELSE LoopTop([rec EXCEPT !.lastErr = res, !.attempt = @ + 1])
    /\ last' = NoCall
    /\ UNCHANGED <<nmVars, ops, broadcast, mu, callers, waiter, call, epoch>>

NextRetry ==
  \/ RetryCall
  \/ RetryCtxCancelled
  \/ RetrySelect
  \/ BackoffElapsed
  \/ RetrySend

SpecRetry ==
  Init /\ [][NextRetry]_vars

\* --------------------------------------------------- the receipt waiters
\* maxErrors of the call: config.MaxConsecutiveErrors, or 5 when it is 0
\* (part_002 190-193); WaitForConfirmation compares with 5 (136, 156).
EffectiveMaxErrors(fn, config) ==
  IF fn = "WaitForReceiptWithConfig" /\ config # 0
  THEN config ELSE MaxConsecutiveErrors

\* case <-ctx.Done(): WaitForReceiptWithConfig wraps ErrReceiptTimeout and
\* appends the poll count and ctx.Err() as text (205); WaitForConfirmation
\* returns ctx.Err() itself (122).
WaitOnCtxDone(rec) ==
  [rec EXCEPT !.pc = "done",
              !.ret = IF rec.fn = "WaitForReceiptWithConfig"
                      THEN [receipt |-> FALSE, err |-> "ErrReceiptTimeout",
                            detail |-> rec.ctx, polls |-> rec.pollCount]
                      ELSE [receipt |-> FALSE, err |-> rec.ctx,
                            detail |-> "none", polls |-> 0]]

\* case <-ticker.C: pollCount++ and client.TransactionReceipt is called.
BeginPoll(rec) ==
  [rec EXCEPT !.pc = "request", !.pollCount = @ + 1, !.requests = @ + 1,
              !.tickReady = FALSE]

\* A depth test that forgets the confirmations.
ConfirmedIgnoringDepth(receiptBlock, confirmations, currentBlock) ==
  receiptBlock <= currentBlock

\* receipt.BlockNumber.Uint64()+confirmations <= currentBlock, for block
\* numbers and depths whose sum is below 2^64.
Confirmed(receiptBlock, confirmations, currentBlock) ==
  receiptBlock + confirmations <= currentBlock

\* The return with ErrReceiptRPCFailure; only WaitForReceiptWithConfig
\* writes the poll count into the message.
RPCFailure(rec) ==
  [rec EXCEPT !.pc = "done",
              !.ret = [receipt |-> FALSE, err |-> "ErrReceiptRPCFailure",
                       detail |-> rec.lastErr,
                       polls |-> IF rec.fn = "WaitForReceiptWithConfig"
                                 THEN rec.pollCount ELSE 0]]

\* A wait is called: the locals before the loop (part_002 112-117, 183-200).
WaitCall ==
  \E fn \in WaitFunctions, config \in 0..MaxErrorsConfig,
     confirmations \in 0..MaxConfirmations :
    /\ waiter.pc = "idle"
    /\ fn = "WaitForReceiptWithConfig" => confirmations = 0
    /\ fn = "WaitForConfirmation" => config = 0
    /\ waiter' = [IdleWaiter EXCEPT
                    !.pc = "select", !.fn = fn, !.config = config,
                    !.confirmations = confirmations,
                    !.maxErrors = EffectiveMaxErrors(fn, config)]
    /\ last' = NoCall
    /\ UNCHANGED <<nmVars, ops, broadcast, mu, callers, retrier, call, epoch>>

\* The context is done: the caller cancels, or the deadline that
\* context.WithTimeout set passes. A call blocked in the select is woken by
\* the Done channel; a call in an RPC sees it later.
WaitCtxFires ==
  \E cause \in {"context.Canceled", "context.DeadlineExceeded"} :
    /\ waiter.pc \in {"select", "parked", "request", "head"}
    /\ waiter.ctx = "live"
    /\ cause = "context.DeadlineExceeded"
         => waiter.fn = "WaitForReceiptWithConfig"
    /\ waiter' =
         IF waiter.pc = "parked"
         THEN WaitOnCtxDone(
                [waiter EXCEPT !.ctx = cause,
                               !.cancelParked = (cause = "context.Canceled"),
                               !.requestsAtCancel = waiter.requests])
         ELSE [waiter EXCEPT !.ctx = cause]
    /\ last' = NoCall
    /\ UNCHANGED <<nmVars, ops, broadcast, mu, callers, retrier, call, epoch>>

\* The ticker fires: a call blocked in the select starts a poll; otherwise
\* the tick waits in the channel.
WaitTickFires ==
  /\ waiter.pc \in {"select", "parked", "request", "head"}
  /\ ~waiter.tickReady
  /\ IF waiter.pc = "parked"
     THEN /\ waiter.pollCount < MaxPolls
          /\ waiter' = BeginPoll(waiter)
     ELSE waiter' = [waiter EXCEPT !.tickReady = TRUE]
  /\ last' = NoCall
  /\ UNCHANGED <<nmVars, ops, broadcast, mu, callers, retrier, call, epoch>>

\* The call reaches the select: it takes a case that is ready, either one
\* when both are, and blocks when none is.
WaitSelect ==
  \E case \in {"done", "tick", "park"} :
    /\ waiter.pc = "select"
    /\ case = "done" => waiter.ctx # "live"
    /\ case = "tick" => (waiter.tickReady /\ waiter.pollCount < MaxPolls)
    /\ case = "park" => (waiter.ctx = "live" /\ ~waiter.tickReady)
    /\ waiter' = CASE case = "done" -> WaitOnCtxDone(waiter)
                    [] case = "tick" -> BeginPoll(waiter)
                    [] case = "park" -> [waiter EXCEPT !.pc = "parked"]
    /\ last' = NoCall
    /\ UNCHANGED <<nmVars, ops, broadcast, mu, callers, retrier, call, epoch>>

\* client.TransactionReceipt answers (part_002 125-150, 208-228); with the
\* context done the call fails with the context's error.
WaitReceiptReply ==
  \E event \in PollEvents \ {"ctxDone"}, block \in 1..MaxBlock :
    /\ waiter.pc = "request"
    /\ waiter.ctx # "live" => event = "rpcError"
    /\ LET errText == IF event # "rpcError" THEN "none"
                      ELSE IF waiter.ctx = "live" THEN "rpc" ELSE waiter.ctx
           w == PollReceipt(waiter.consecutiveErrors, event, waiter.maxErrors)
           rec == [waiter EXCEPT
                     !.hist = Append(@, [poll |-> waiter.pollCount,
                                         call |-> "TransactionReceipt",
                                         reply |-> event, err |-> errText]),
                     !.consecutiveErrors = w.consecutiveErrors,
                     !.lastErr = IF event = "rpcError" THEN errText ELSE @]
       IN waiter' =
            CASE w.status = "polling" -> [rec EXCEPT !.pc = "select"]
              [] w.status = "rpcFailure" -> RPCFailure(rec)
              [] w.status = "failedOnChain" ->
                   [rec EXCEPT !.pc = "done",
                               !.ret = [receipt |-> TRUE, err |-> "txFailed",
                                        detail |-> "none", polls |-> 0]]
              [] w.status = "success" ->
                   IF waiter.fn = "WaitForReceiptWithConfig"
                      \/ waiter.confirmations = 0
                   THEN [rec EXCEPT !.pc = "done",
                                    !.ret = [receipt |-> TRUE, err |-> "nil",
                                             detail |-> "none", polls |-> 0]]
                   ELSE [rec EXCEPT !.pc = "head", !.consecutiveErrors = 0,
                                    !.receiptBlock = block,
                                    !.headFetches = @ + 1]
    /\ last' = NoCall
    /\ UNCHANGED <<nmVars, ops, broadcast, mu, callers, retrier, call, epoch>>

\* client.BlockNumber answers (part_002 152-166); the receipt and the head
\* are locals of the loop turn and are dropped when it ends.
WaitHeadReply ==
  \E ok \in BOOLEAN, head \in 0..MaxHead :
    /\ waiter.pc = "head"
    /\ waiter.ctx # "live" => ~ok
    /\ ~ok => head = 0
    /\ LET errText == IF ok THEN "none"
                      ELSE IF waiter.ctx = "live" THEN "rpc" ELSE waiter.ctx
           w == PollReceipt(waiter.consecutiveErrors, "rpcError",
                            MaxConsecutiveErrors)
           rec == [waiter EXCEPT
                     !.hist = Append(@, [poll |-> waiter.pollCount,
                                         call |-> "BlockNumber",
                                         reply |-> IF ok THEN "head"
                                                   ELSE "rpcError",
                                         err |-> errText])]
       IN waiter' =
            IF ~ok
            THEN LET failed == [rec EXCEPT
                                  !.consecutiveErrors = w.consecutiveErrors,
                                  !.lastErr = errText, !.receiptBlock = 0]
                 IN IF w.status = "rpcFailure" THEN RPCFailure(failed)
                    ELSE [failed EXCEPT !.pc = "select"]
            ELSE IF Confirmed(waiter.receiptBlock, waiter.confirmations, head)
            THEN [rec EXCEPT !.pc = "done", !.consecutiveErrors = 0,
                             !.currentBlock = head,
                             !.ret = [receipt |-> TRUE, err |-> "nil",
                                      detail |-> "none", polls |-> 0]]
            ELSE [rec EXCEPT !.pc = "select", !.consecutiveErrors = 0,
                             !.receiptBlock = 0]
    /\ last' = NoCall
    /\ UNCHANGED <<nmVars, ops, broadcast, mu, callers, retrier, call, epoch>>

NextWait ==
  \/ WaitCall
  \/ WaitCtxFires
  \/ WaitTickFires
  \/ WaitSelect
  \/ WaitReceiptReply
  \/ WaitHeadReply

SpecWait ==
  Init /\ [][NextWait]_vars

\* ------------------------------------------------ Reset during operations
\* Before the Reset, another operation allocates a nonce and keeps it.
EpochOtherAllocate ==
  /\ epoch.pc \in {"fresh", "held"}
  /\ IF nonce = <<>> THEN TRUE ELSE nonce[1] <= MaxNonce
  /\ \E fetch \in FetchResults : GetNonce(Direct, fetch)
  /\ UNCHANGED <<ops, broadcast, auxVars>>

\* The operation that will be in flight allocates its nonce and registers
\* its deferred closure (manager.go 179-191).
EpochAllocate ==
  /\ epoch.pc = "fresh"
  /\ IF nonce = <<>> THEN TRUE ELSE nonce[1] <= MaxNonce
  /\ \E fetch \in FetchResults : GetNonce(1, fetch)
  /\ epoch' = IF last'.err THEN epoch
              ELSE [epoch EXCEPT !.pc = "held", !.held = <<last'.ret>>]
  /\ UNCHANGED <<ops, broadcast, mu, callers, retrier, waiter, call>>

\* Reset is called while the operation holds its nonce.
EpochReset ==
  /\ epoch.pc = "held"
  /\ \E fetch \in FetchResults : Reset(Direct, fetch)
  /\ epoch' = IF last'.err THEN epoch ELSE [epoch EXCEPT !.pc = "reset"]
  /\ UNCHANGED <<ops, broadcast, mu, callers, retrier, waiter, call>>

\* The operation in flight fails before its transaction is sent and its
\* deferred closure calls MarkFailed(nonce).
EpochMarkFailed ==
  /\ epoch.pc = "reset"
  /\ ~epoch.released
  /\ MarkFailed(1, epoch.held[1])
  /\ epoch' = [epoch EXCEPT !.released = TRUE]
  /\ UNCHANGED <<ops, broadcast, mu, callers, retrier, waiter, call>>

\* A GetNonce call made after the Reset.
EpochGetNonce ==
  /\ epoch.pc = "reset"
  /\ Len(epoch.issued) < MaxIssued
  /\ \E fetch \in FetchResults : GetNonce(Direct, fetch)
  /\ epoch' = IF last'.err THEN epoch
              ELSE [epoch EXCEPT !.issued = Append(@, last'.ret)]
  /\ UNCHANGED <<ops, broadcast, mu, callers, retrier, waiter, call>>

NextEpoch ==
  \/ EpochOtherAllocate
  \/ EpochAllocate
  \/ EpochReset
  \/ EpochMarkFailed
  \/ EpochGetNonce

SpecEpoch ==
  Init /\ [][NextEpoch]_vars

\* ============================================= stateless function calls
\* Each action is one call of a function that keeps no state; call records
\* the arguments, the requests sent to the node and the result.
FunctionCall(fn, args, netCalls, result) ==
  /\ call' = [fn |-> fn, args |-> args, netCalls |-> netCalls,
              result |-> result]
  /\ last' = NoCall
  /\ UNCHANGED <<nonce, pendingTxs, reclaimable, retired, ops, broadcast, mu,
                 callers, retrier, waiter, epoch>>

CallIsRetryableError ==
  \E err \in ErrorSamples \cup {NilError} :
    FunctionCall("IsRetryableError", <<err>>, <<>>, <<IsRetryableError(err)>>)

CallIsNonceError ==
  \E err \in ErrorSamples \cup {NilError} :
    FunctionCall("IsNonceError", <<err>>, <<>>, <<IsNonceError(err)>>)

CallIsGasError ==
  \E err \in ErrorSamples \cup {NilError} :
    FunctionCall("IsGasError", <<err>>, <<>>, <<IsGasError(err)>>)

\* txutil.CalculateBackoff(attempt, initialBackoff, maxBackoff, multiplier)
\* with the multiplier a fraction <<numerator, denominator>>.
CallCalculateBackoff ==
  \E attempt \in 0..MaxAttempt, initialBackoff \in 1..MaxDuration,
     maxBackoff \in 1..MaxCap, multiplier \in Multiples,
     draw \in RandomDraws :
    \E backoff \in FloatToDuration(
                     initialBackoff * Pow(multiplier[1], attempt),
                     Pow(multiplier[2], attempt)) :
      FunctionCall("CalculateBackoff",
                   <<attempt, initialBackoff, maxBackoff, multiplier, draw>>,
                   <<>>,
                   <<CalculateBackoff(backoff, maxBackoff, draw)>>)

\* pdp.NewManagerWithConfig. config is <<>> for nil and <<percent>> for
\* a configuration with that GasBufferPercent; chain is the answer of
\* client.ChainID; hasAddress tells whether a contract address is
\* configured or known for the network.
NewManagerWithConfig(signerNil, networkKnown, chain, config, hasAddress) ==
  LET args == <<signerNil, networkKnown, chain, config, hasAddress>>
      percent == IF config = <<>> THEN DefaultGasBufferPercent ELSE config[1]
  IN IF signerNil
     THEN FunctionCall("NewManagerWithConfig", args, <<>>, <<"errSigner">>)
     ELSE IF ~networkKnown
     THEN FunctionCall("NewManagerWithConfig", args, <<>>, <<"errNetwork">>)
     ELSE IF chain = "error"
     THEN FunctionCall("NewManagerWithConfig", args, <<"ChainID">>,
                       <<"errChainID">>)
     ELSE IF chain = "mismatch"
     THEN FunctionCall("NewManagerWithConfig", args, <<"ChainID">>,
                       <<"errChainMismatch">>)
     ELSE IF PercentOutOfRange(percent)
     THEN FunctionCall("NewManagerWithConfig", args, <<"ChainID">>,
                       <<"errGasBufferPercent">>)
     ELSE IF ~hasAddress
     THEN FunctionCall("NewManagerWithConfig", args, <<"ChainID">>,
                       <<"errNoAddress">>)
     ELSE FunctionCall("NewManagerWithConfig", args, <<"ChainID">>,
                       <<"manager">>)

CallNewManagerWithConfig ==
  \E signerNil, networkKnown, hasAddress \in BOOLEAN,
     chain \in {"error", "mismatch", "match"},
     config \in {<<>>} \cup {<<p>> : p \in GasBufferPercents} :
    NewManagerWithConfig(signerNil, networkKnown, chain, config, hasAddress)

\* txutil.EstimateGasWithBuffer(ctx, client, msg, bufferPercent); estimate
\* is the answer client.EstimateGas gives if it is asked.
EstimateGasWithBuffer(bufferPercent, estimate) ==
  LET args == <<bufferPercent, estimate>>
  IN IF PercentOutOfRange(bufferPercent)
     THEN FunctionCall("EstimateGasWithBuffer", args, <<>>,
                       <<"errBufferPercent">>)
     ELSE IF ~estimate.ok
     THEN FunctionCall("EstimateGasWithBuffer", args, <<"EstimateGas">>,
                       <<"errEstimateGas">>)
     ELSE FunctionCall("EstimateGasWithBuffer", args, <<"EstimateGas">>,
                       <<IF bufferPercent > 0
                         THEN estimate.gas
                              + ((estimate.gas * bufferPercent) \div 100)
                         ELSE estimate.gas>>)

CallEstimateGasWithBuffer ==
  \E bufferPercent \in GasBufferPercents, estimate \in GasEstimates :
    EstimateGasWithBuffer(bufferPercent, estimate)

NextCalls ==
  \/ CallIsRetryableError
  \/ CallIsNonceError
  \/ CallIsGasError
  \/ CallCalculateBackoff
  \/ CallNewManagerWithConfig
  \/ CallEstimateGasWithBuffer

SpecCalls ==
  Init /\ [][NextCalls]_vars

\* ================================================================ claims
\* Exits taken before the transmitting call returned nil.
LocalFailures ==
  {"errSigner", "errGas", "errSend"}

\* C1 (Spec): whatever calls were made before, a GetNonce that succeeds
\* returns a value that was not in pending when it was called, so no two
\* live allocations hold the same nonce.
C1_GetNonceNeverReturnsPending ==
  (last.op = "GetNonce" /\ ~last.err) => last.ret \notin last.pre.pendingTxs

\* C2 (Spec): a GetNonce called with a non-empty reclaim pool succeeds,
\* returns the pool's minimum, takes exactly that one entry out of the pool,
\* puts it in pending and leaves nextNonce alone, so what stays in the pool
\* is not smaller than what was issued; the counter moves only when the pool
\* was empty, and then the value issued is the counter's.
C2_ReclaimSmallestFirst ==
  last.op = "GetNonce" =>
    /\ last.pre.reclaimable # <<>> =>
         /\ ~last.err
         /\ last.ret = MinOf(Range(last.pre.reclaimable))
         /\ nonce = last.pre.nonce
         /\ last.ret \in pendingTxs
         /\ Len(reclaimable) = Len(last.pre.reclaimable) - 1
         /\ \A x \in Range(last.pre.reclaimable) :
              Count(reclaimable, x) =
                Count(last.pre.reclaimable, x) - (IF x = last.ret THEN 1 ELSE 0)
         /\ \A x \in Range(reclaimable) : last.ret <= x
    /\ nonce # last.pre.nonce =>
         /\ last.pre.reclaimable = <<>>
         /\ nonce = <<last.ret + 1>>
         /\ last.pre.nonce # <<>> => last.ret = last.pre.nonce[1]

\* C2 witness: nonces failed out of order (the larger one first) and
\* GetNonce issued the smaller one.
C2_Witness ==
  /\ last.op = "GetNonce"
  /\ Len(last.pre.reclaimable) >= 2
  /\ last.pre.reclaimable[1] > last.ret
  /\ last.pre.nonce # <<>>

\* C3 (SpecOrch): an operation that returned because waiting for the receipt
\* timed out or hit repeated RPC errors, after txSent was set, never called
\* MarkFailed: its nonce is in pending and not in the reclaim pool.
C3_WaitErrorKeepsNoncePending ==
  \A o \in Ops :
    (/\ ops[o].pc = "done"
     /\ ops[o].txSent
     /\ ops[o].wait \in {"timeout", "rpcFailure"}) =>
       /\ ops[o].failedCalls = 0
       /\ ops[o].nonce \in pendingTxs
       /\ ops[o].nonce \notin Range(reclaimable)

\* C3 witness: an operation returned after the receipt loop gave up on
\* repeated RPC errors.
C3_Witness ==
  \E o \in Ops :
    /\ ops[o].pc = "done"
    /\ ops[o].txSent
    /\ ops[o].wait = "rpcFailure"

\* C4 (SpecOrch): an operation that returned on a signer, gas-estimation or
\* send error called MarkFailed exactly once and MarkConfirmed never, with
\* txSent still false; when that MarkFailed returns the nonce is out of
\* pending and in the reclaim pool; and txSent is true only past a
\* transmitting call that returned nil (the node holds the transaction).
C4_LocalFailureReleasesNonce ==
  \A o \in Ops :
    /\ (ops[o].pc = "done" /\ ops[o].outcome \in LocalFailures) =>
         /\ ops[o].failedCalls = 1
         /\ ops[o].confirmedCalls = 0
         /\ ~ops[o].txSent
    /\ (last.op = "MarkFailed" /\ last.caller = o) =>
         /\ ops[o].pc = "done"
         /\ ops[o].outcome \in LocalFailures
         /\ last.arg = ops[o].nonce
         /\ last.arg \notin pendingTxs
         /\ last.arg \in Range(reclaimable)
    /\ ops[o].txSent =>
         /\ ops[o].pc \in {"wait", "finish", "done"}
         /\ ops[o].outcome \notin LocalFailures
         /\ ops[o].nonce \in broadcast

\* C4 witness: an operation has just returned on a send error.
C4_Witness ==
  \E o \in Ops :
    /\ ops[o].pc = "done"
    /\ ops[o].outcome = "errSend"
    /\ last.op = "MarkFailed"
    /\ last.caller = o

\* C5 (SpecOrch): an operation that returned after a receipt with success
\* status called MarkConfirmed exactly once and MarkFailed never, and its
\* nonce is neither in pending nor in the reclaim pool, also when reading
\* the result from the logs failed.
C5_SuccessReceiptConfirmsNonce ==
  \A o \in Ops :
    (ops[o].pc = "done" /\ ops[o].wait = "success") =>
      /\ ops[o].confirmedCalls = 1
      /\ ops[o].failedCalls = 0
      /\ ops[o].nonce \notin pendingTxs
      /\ ops[o].nonce \notin Range(reclaimable)

\* C5 witness: the receipt was successful and the result extraction failed.
C5_Witness ==
  \E o \in Ops :
    /\ ops[o].pc = "done"
    /\ ops[o].wait = "success"
    /\ ops[o].outcome = "errExtract"

\* C6 (SpecOrch): no nonce is in the reclaim pool while the node holds a
\* transaction carrying it.
C6_ReclaimedNeverBroadcast ==
  \A n \in Range(reclaimable) : n \notin broadcast

\* C7 (SpecOrch): an operation that returned after a receipt with failure
\* status called MarkConfirmed once, its nonce is out of pending and not
\* reclaimed, and the caller got the receipt along with the error.
C7_OnChainFailureConfirmsNonce ==
  \A o \in Ops :
    (ops[o].pc = "done" /\ ops[o].wait = "failedOnChain") =>
      /\ ops[o].confirmedCalls = 1
      /\ ops[o].nonce \notin pendingTxs
      /\ ops[o].nonce \notin Range(reclaimable)
      /\ ops[o].kind # "DeleteProofSet" => ops[o].hasResult

\* C8 (Spec): a nonce MarkConfirmed has been called for is not in the
\* reclaim pool at any later time.
C8_RetiredNeverReclaimable ==
  \A n \in retired : n \notin Range(reclaimable)

\* C9 (Spec): no nonce is in pending and in the reclaim pool at once.
C9_PendingReclaimDisjoint ==
  pendingTxs \cap Range(reclaimable) = {}

\* C10 (Spec): MarkConfirmed(n) returns without error, takes n out of
\* pending and leaves nextNonce and the reclaim pool as they were; for an n
\* that was not in pending (confirmed before, or never allocated) the whole
\* state is as before.
C10_MarkConfirmedOnlyDeletes ==
  last.op = "MarkConfirmed" =>
    /\ ~last.err
    /\ pendingTxs = last.pre.pendingTxs \ {last.arg}
    /\ nonce = last.pre.nonce
    /\ reclaimable = last.pre.reclaimable
    /\ last.arg \notin last.pre.pendingTxs => Snapshot = last.pre

\* C10 witness: MarkConfirmed was called again for a nonce it had already
\* removed, while other nonces were pending and reclaimable.
C10_Witness ==
  /\ last.op = "MarkConfirmed"
  /\ last.arg \in retired
  /\ last.arg \notin last.pre.pendingTxs
  /\ last.pre.pendingTxs # {}
  /\ last.pre.reclaimable # <<>>

\* C20 (Spec): a Reset whose network fetch succeeds leaves nextNonce at the
\* fetched pending nonce with pending and the reclaim pool both empty; a
\* Reset whose fetch fails returns an error and leaves nextNonce, pending
\* and the reclaim pool as they were.
C20_ResetReplacesOrKeeps ==
  last.op = "Reset" =>
    IF last.err
    THEN Snapshot = last.pre
    ELSE /\ nonce = <<last.arg>>
         /\ last.arg \in 0..MaxFetch
         /\ pendingTxs = {}
         /\ reclaimable = <<>>

\* A successful Reset of a manager that had a nonce pending, a nonce in the
\* pool and a counter other than the fetched value.
C20_Witness ==
  /\ last.op = "Reset"
  /\ ~last.err
  /\ last.pre.pendingTxs # {}
  /\ last.pre.reclaimable # <<>>
  /\ last.pre.nonce # <<last.arg>>
  /\ last.pre.nonce # <<>>

\* C11 (SpecConc): goroutines calling GetNonce on one NonceManager at the
\* same time, the calls made while the first one is still waiting for the
\* network's answer included, never get the same value twice: any two calls
\* that returned without an error returned different nonces.
C11_ConcurrentCallsDistinct ==
  \A g, h \in Goroutines :
    (g # h /\ callers[g].pc = "returned" /\ callers[h].pc = "returned")
      => callers[g].ret # callers[h].ret

\* Every goroutine got a nonce, the first of them from the network.
C11_Witness ==
  /\ \A g \in Goroutines : callers[g].pc = "returned"
  /\ \E g \in Goroutines : callers[g].ret = MaxFetch
  /\ NumCallers > 1

\* C17 (SpecRetry): SendTransactionWithRetry calls SendTransaction at most
\* MaxRetries + 1 times; no attempt follows a successful one, and the call
\* returns the hash exactly when its latest attempt succeeded; when every
\* attempt made failed with a retryable error and the call was not ended by
\* a cancellation, it made exactly MaxRetries + 1 attempts and returned
\* 'max retries exceeded' wrapping the error of the last attempt.
C17_BoundedAttempts ==
  LET n == Len(retrier.sends)
      allRetryable == \A i \in 1..n : IsRetryableError(retrier.sends[i])
  IN /\ n <= retrier.config.MaxRetries + 1
     /\ \A i \in 1..(n - 1) : retrier.sends[i] # NilError
     /\ (n > 0 /\ retrier.sends[n] = NilError)
          => (retrier.pc = "done" /\ retrier.ret.kind = "hash")
     /\ retrier.ret.kind = "hash" => (n > 0 /\ retrier.sends[n] = NilError)
     /\ (retrier.pc = "done" /\ allRetryable /\ retrier.ret.kind # "ctxErr")
          => /\ n = retrier.config.MaxRetries + 1
             /\ retrier.ret = [kind |-> "maxRetries",
                               wraps |-> retrier.sends[n]]
     /\ retrier.ret.kind = "maxRetries"
          => (n = retrier.config.MaxRetries + 1 /\ allRetryable)

\* The largest configured number of retries was used up.
C17_Witness ==
  /\ retrier.pc = "done"
  /\ retrier.ret.kind = "maxRetries"
  /\ retrier.config.MaxRetries = MaxRetriesBound
  /\ Len(retrier.sends) = MaxRetriesBound + 1
  /\ Len(retrier.waits) = MaxRetriesBound

\* C18 (SpecRetry): an attempt that fails with a non-retryable error
\* ('insufficient funds', a cancelled context) is the last one: the call has
\* returned that error wrapped as non-retryable, and the only backoff waits
\* made are the ones before the earlier attempts.
C18_NonRetryableReturnsAtOnce ==
  \A i \in DOMAIN retrier.sends :
    retrier.sends[i] \in {ErrInsufficientFunds, ErrContextCanceled}
      => /\ i = Len(retrier.sends)
         /\ retrier.pc = "done"
         /\ retrier.ret = [kind |-> "nonRetryable",
                           wraps |-> retrier.sends[i]]
         /\ Len(retrier.waits) = i - 1

\* A retry was answered with 'insufficient funds'.
C18_Witness ==
  /\ retrier.pc = "done"
  /\ retrier.ret = [kind |-> "nonRetryable", wraps |-> ErrInsufficientFunds]
  /\ Len(retrier.sends) > 1

\* C19 (SpecRetry): when ctx is cancelled while the call is blocked waiting
\* out a backoff, the call has returned the context's error and has made no
\* SendTransaction call beyond the ones made before the cancellation.
C19_CancelDuringBackoffReturns ==
  retrier.cancelledParked
    => /\ retrier.pc = "done"
       /\ retrier.ret = [kind |-> "ctxErr", wraps |-> ErrContextCanceled]
       /\ Len(retrier.sends) = retrier.sendsAtCancel

\* The cancellation came during the wait that follows the second attempt.
C19_Witness ==
  /\ retrier.cancelledParked
  /\ retrier.pc = "done"
  /\ retrier.sendsAtCancel > 1
  /\ Len(retrier.waits) > 0

\* Length of the run of RPC errors the history h ends with.
RECURSIVE ErrorRun(_)
ErrorRun(h) ==
  IF h = <<>> THEN 0
  ELSE IF h[Len(h)].reply = "rpcError"
  THEN 1 + ErrorRun(SubSeq(h, 1, Len(h) - 1))
  ELSE 0

\* The wait is in its loop.
Waiting ==
  waiter.pc \in {"select", "parked", "request", "head"}

\* C12 (SpecWait): in both waiters the consecutive-error counter always
\* equals the number of RPC errors received since the latest answer that
\* was not an error, so a 'not found' answer puts it back to zero and every
\* other error adds one; the wait goes on while that run is shorter than
\* the limit (config.MaxConsecutiveErrors, or 5 when unset and in
\* WaitForConfirmation), and it has returned the RPC-failure error, which
\* carries the latest error, exactly when the run is as long as the limit.
C12_ErrorRunEndsWait ==
  LET run == ErrorRun(waiter.hist)
      limit == IF waiter.fn = "WaitForReceiptWithConfig" /\ waiter.config # 0
               THEN waiter.config ELSE MaxConsecutiveErrors
      n == Len(waiter.hist)
  IN /\ Waiting => (waiter.consecutiveErrors = run /\ run < limit)
     /\ waiter.pc = "done"
          => (waiter.ret.err = "ErrReceiptRPCFailure" <=> run = limit)
     /\ waiter.ret.err = "ErrReceiptRPCFailure"
          => (n > 0 /\ waiter.ret.detail = waiter.hist[n].err
                   /\ ~waiter.ret.receipt)

\* A wait ended by the RPC-failure error after errors that a 'not found'
\* answer had interrupted.
C12_Witness ==
  /\ waiter.pc = "done"
  /\ waiter.ret.err = "ErrReceiptRPCFailure"
  /\ \E i, j \in DOMAIN waiter.hist :
       /\ i < j
       /\ waiter.hist[i].reply = "rpcError"
       /\ waiter.hist[j].reply = "notFound"

\* C13 (SpecWait): a WaitForReceiptWithConfig call that has returned ended
\* in exactly one of CONFIRMED, FAILED_ONCHAIN, TIMED_OUT, RPC_UNAVAILABLE,
\* and when the timeout passed before it returned, it ended TIMED_OUT with
\* a reported poll count equal to the number of receipt requests made.
C13_TimeoutEndsTimedOut ==
  (waiter.fn = "WaitForReceiptWithConfig" /\ waiter.pc = "done")
    => /\ \/ (waiter.ret.receipt /\ waiter.ret.err \in {"nil", "txFailed"})
          \/ (~waiter.ret.receipt
              /\ waiter.ret.err \in {"ErrReceiptTimeout",
                                      "ErrReceiptRPCFailure"})
       /\ waiter.ctx = "context.DeadlineExceeded"
            => /\ waiter.ret.err = "ErrReceiptTimeout"
               /\ waiter.ret.polls = waiter.requests

\* C14 (SpecWait): when the caller cancels while the waiter is blocked
\* between two polls, the waiter has returned without another receipt
\* request, and what it returned is the cancellation error and not the
\* error of a timeout.
C14_CancelReturnsCancellation ==
  waiter.cancelParked
    => /\ waiter.pc = "done"
       /\ waiter.requests = waiter.requestsAtCancel
       /\ waiter.ret.err = "context.Canceled"

C16_FailedReceiptEndsWait ==
  \A i \in DOMAIN waiter.hist :
    waiter.hist[i].reply = "failed"
      => /\ i = Len(waiter.hist)
         /\ waiter.pc = "done"
         /\ waiter.ret.receipt
         /\ waiter.ret.err = "txFailed"

\* A WaitForConfirmation with a depth above zero that met a failed receipt
\* after an earlier poll.
C16_Witness ==
  /\ waiter.fn = "WaitForConfirmation"
  /\ waiter.confirmations > 0
  /\ waiter.pc = "done"
  /\ waiter.ret.err = "txFailed"
  /\ Len(waiter.hist) > 1

\* C28 (Spec): GetNonce asks the node exactly when it is called with an
\* empty reclaim pool and an unset counter; it returns an error only from a
\* call that asked the node, and after such a call the counter is still
\* unset and pending and the pool are what they were, so that the next
\* GetNonce asks the node again.
C28_FetchOnlyWhenUnset ==
  last.op = "GetNonce" =>
    /\ last.net <=> (last.pre.reclaimable = <<>> /\ last.pre.nonce = <<>>)
    /\ last.err => /\ last.net
                   /\ nonce = <<>>
                   /\ Snapshot = last.pre

\* A failed fetch on a manager that has a nonce pending.
C28_Witness ==
  /\ last.op = "GetNonce"
  /\ last.err
  /\ last.net
  /\ pendingTxs # {}

C24_NoLockAcrossNetworkCall ==
  \A g \in Goroutines : callers[g].pc = "fetching" => mu = 0

\* C26 (SpecRetry): every SendTransaction call of SendTransactionWithRetry,
\* the first included, was issued with a context that was not cancelled: a
\* call invoked with a cancelled context, or whose context is cancelled
\* when a backoff ends, transmits nothing.
C26_NoSendAfterCancel ==
  ~retrier.sentCancelled

\* min(InitialBackoff * BackoffMultiple^(k-1), MaxBackoff), in whole time
\* units.
ExpectedWait(config, k) ==
  LET grown == (config.InitialBackoff * Pow(config.BackoffMultiple[1], k - 1))
                 \div Pow(config.BackoffMultiple[2], k - 1)
  IN IF grown > config.MaxBackoff THEN config.MaxBackoff ELSE grown

\* C27 (SpecRetry): no backoff is waited before the first attempt, the
\* wait before the k-th retry is min(InitialBackoff * BackoffMultiple^(k-1),
\* MaxBackoff), and no wait is longer than MaxBackoff, whatever the
\* RetryConfig.
C27_WaitsFollowCappedGrowth ==
  /\ Len(retrier.waits) <= Len(retrier.sends)
  /\ \A k \in DOMAIN retrier.waits :
       /\ retrier.waits[k] <= retrier.config.MaxBackoff
       /\ retrier.waits[k] = ExpectedWait(retrier.config, k)

\* C25 (SpecOrch): an operation whose transmitting call failed with a
\* transient network error (the reply was lost: a timeout, a connection
\* reset) has not returned with that error and released its nonce; the
\* transmission is tried again with the same nonce.
C25_TransientSendErrorRetried ==
  \A o \in Ops :
    ops[o].sendResult = "lost"
      => ~(ops[o].pc = "done" /\ ops[o].outcome = "errSend")

\* C30 (SpecEpoch): when an operation allocated its nonce before a Reset
\* and releases it with MarkFailed after the Reset, the GetNonce calls made
\* after the Reset never return the same value twice.
C30_UniqueAfterReset ==
  epoch.released
    => \A i, j \in DOMAIN epoch.issued :
         i # j => epoch.issued[i] # epoch.issued[j]

\* The sample messages that hold one of the signatures of retryableErrors,
\* listed by hand.
TransientSamples ==
  {ErrNonceTooLow, ErrAlreadyKnown, ErrUnderpriced, ErrTimeoutOccurred,
   ErrConnectionRefused, ErrConnectionReset, ErrBrokenPipe, ErrIOTimeout}

\* C23 (SpecCalls): IsRetryableError, IsNonceError and IsGasError answer
\* false for a nil error; for a non-nil error IsRetryableError answers true
\* exactly when the message, compared without regard to case, holds a known
\* transient signature, so "insufficient funds" is not retryable.
C23_ClassifiersByMessage ==
  /\ (/\ call.fn \in {"IsRetryableError", "IsNonceError", "IsGasError"}
      /\ call.args = <<NilError>>)
     => call.result = <<FALSE>>
  /\ call.fn = "IsRetryableError"
     => call.result = <<call.args[1] \in TransientSamples>>

C23_Witness ==
  /\ call.fn = "IsRetryableError"
  /\ call.args[1] = ErrAlreadyKnown
  /\ call.result = <<TRUE>>

\* C21 (SpecCalls): a gas buffer percentage outside 0..100 is rejected
\* with the validation error before any request is sent to the node, by
\* NewManagerWithConfig given a signer and a known network (not even the
\* chain ID is asked for) and by EstimateGasWithBuffer (EstimateGas is not
\* called).
C21_PercentRejectedBeforeNetwork ==
  IF call.fn = "NewManagerWithConfig"
  THEN IF call.args[1] \/ ~call.args[2] \/ call.args[4] = <<>>
       THEN TRUE
       ELSE (call.args[4][1] < 0 \/ call.args[4][1] > 100)
            => /\ call.result = <<"errGasBufferPercent">>
               /\ call.netCalls = <<>>
  ELSE IF call.fn = "EstimateGasWithBuffer"
  THEN (call.args[1] < 0 \/ call.args[1] > 100)
       => /\ call.result = <<"errBufferPercent">>
          /\ call.netCalls = <<>>
  ELSE TRUE

\* min(initialBackoff * multiplier^attempt, maxBackoff) of a recorded
\* CalculateBackoff call, in exact arithmetic.
BackoffBase ==
  LET attempt == call.args[1]
      product == (call.args[2] * Pow(call.args[4][1], attempt))
                 \div Pow(call.args[4][2], attempt)
  IN IF product > call.args[3] THEN call.args[3] ELSE product

\* C22 (SpecCalls): for every attempt >= 0 CalculateBackoff returns a
\* value between base/2 and base, where base is
\* min(initialBackoff * multiplier^attempt, maxBackoff), and returns
\* exactly base/2 when the random source fails.
C22_BackoffWithinHalfAndBase ==
  call.fn = "CalculateBackoff" =>
    /\ call.result[1] >= BackoffBase \div 2
    /\ call.result[1] <= BackoffBase
    /\ ~call.args[5].ok => call.result[1] = BackoffBase \div 2

====
